---- MODULE Spec2Model ----
(***************************************************************************)
(* A model of scraper.py: the RateLimiter, WebScraper.fetch_url (retry     *)
(* loop with exponential backoff), WebScraper._scrape_single_url and       *)
(* WebScraper.scrape_articles (fan-out with asyncio.gather, aggregation of *)
(* the statistics).                                                        *)
(*                                                                         *)
(* The program runs on one asyncio event loop: a coroutine runs without    *)
(* interruption from one await to the next, so every action below is the   *)
(* code between two suspension points of one coroutine.  The wall clock    *)
(* (time.time) is the variable now, counted in whole seconds, and advances *)
(* by the action Tick.                                                     *)
(***************************************************************************)
EXTENDS Integers, Sequences, FiniteSets

(* ------------------------------ bounds --------------------------------- *)

\* the most work the caller gives the one WebScraper: the URLs of all its
\* scrape_articles calls together, plus one for every call after the first
MaxUrls == 3
\* the largest max_retries a WebScraper is constructed with
MaxRetries == 3
\* the largest number of request attempts the URLs handed to the WebScraper can
\* need: (number of URLs) * max_retries
MaxAttempts == 4
\* the value of time.time() when the WebScraper is constructed, in seconds
StartTime == 4

(* --------------------------- configuration ----------------------------- *)

\* the requests_per_second values a WebScraper is constructed with, each a
\* fraction <<numerator, denominator>>: 1.0 and 0.5
Rates == {<<1, 1>>, <<1, 2>>}
\* the per-attempt timeout values (seconds) a WebScraper is constructed with
Timeouts == {1}
\* values the constructors are not meant for: requests_per_second 0 and -1.0,
\* timeout 0
BadRates == {<<0, 1>>, <<-1, 1>>}
BadTimeouts == {0}

Urls == 1..MaxUrls

\* what one request attempt can end in:
\*   ok          status 200 and a non-empty body read by response.text()
\*   empty       status 200 and an empty body
\*   created     a 2xx status other than 200 (201, 204, ...)
\*   status      a non-2xx status (404, 500, ...)
\*   timeout     asyncio.TimeoutError, raised by session.get or response.text
\*   clienterror aiohttp.ClientError, raised by session.get or response.text
\*   raise       any other exception (e.g. UnicodeDecodeError in response.text)
Outcomes == {"ok", "empty", "created", "status", "timeout", "clienterror", "raise"}

\* what the extraction (BeautifulSoup and the Article constructor) can end in
Extractions == {"ok", "exc"}

VARIABLES
    now,                 \* time.time(), in seconds
    requests_per_second, \* RateLimiter.requests_per_second
    min_interval,        \* RateLimiter.min_interval, in seconds
    last_request_time,   \* RateLimiter.last_request_time, in seconds
    timeout,             \* WebScraper.timeout.total, in seconds
    max_retries,         \* WebScraper.max_retries
    constructed,         \* "ok", or the exception that left WebScraper.__init__
    stats,               \* WebScraper.stats (ScraperStats)
    phase,               \* scrape_articles: "idle" (not running) or "running" (in gather)
    urls,                \* len(urls) of the current or the latest call
    start_time,          \* start_time local of scrape_articles
    articles,            \* the list returned by the latest call (indices of the URLs)
    raised,              \* the exception that left the latest scrape_articles call
    calls,               \* number of scrape_articles calls begun
    submitted,           \* number of URLs handed to scrape_articles, all calls together
    pc,                  \* per pipeline: where its coroutine is suspended
    attempt,             \* per pipeline: the loop variable of fetch_url
    wake,                \* per pipeline: end of its sleep, or deadline of its request
    result,              \* per pipeline: what gather collected for it
    outcome,             \* per pipeline: how its latest attempt ended
    fetched,             \* per pipeline: what fetch_url returned
    extract,             \* per pipeline: how the extraction ended
    nreq,                \* per pipeline: requests issued (session.get calls)
    nfail,               \* per pipeline: attempts that ended in a failure
    ngrant,              \* per pipeline: RateLimiter.wait() calls that returned
    slept,               \* per pipeline: total backoff requested, in seconds
    overtaken,           \* some pipeline of the call returned a record before the
                         \* pipeline of a URL earlier in the list had returned
    gap,                 \* the time from the grant before the latest one to the
                         \* latest, cut at min_interval
    base                 \* successful_items and failed_items when the call began

cfg == <<requests_per_second, min_interval, timeout, max_retries, constructed>>
call == <<phase, urls, start_time, articles, raised, calls, submitted, base>>
task == <<pc, attempt, wake, result, outcome, fetched, extract, nreq, nfail, ngrant, slept,
          overtaken>>
limiter == <<last_request_time, gap>>
vars == <<now, cfg, stats, call, task, limiter>>

(* ------------------------------ helpers -------------------------------- *)

RECURSIVE Pow2(_)
Pow2(n) == IF n <= 0 THEN 1 ELSE 2 * Pow2(n - 1)

\* RateLimiter.__init__: min_interval = 1.0 / requests_per_second
MinInterval(r) == r[2] \div r[1]

\* RateLimiter.__init__, line 64, is all the constructors do with their
\* arguments: the division raises for 0.0 and for nothing else
Construct(r) == IF r[1] = 0 THEN "ZeroDivisionError" ELSE "ok"

\* ScraperStats(): the dataclass defaults
NewStats == [total_items |-> 0, successful_items |-> 0, failed_items |-> 0,
             total_time |-> 0, items_per_second |-> <<0, 1>>, status |-> "pending"]

\* mutant of MustSleep: the comparison is turned around
MustSleep_Inverted(elapsed) == elapsed > min_interval

\* RateLimiter.wait, line 70: the caller sleeps when less than min_interval has
\* passed since last_request_time
MustSleep(elapsed) == elapsed < min_interval

\* mutant of AfterAttempt: the test is "status < 300", any 2xx returns the body
AfterAttempt_Any2xx(o) ==
    IF o \in {"ok", "empty", "created"} THEN "return"
    ELSE IF o \in {"status", "timeout", "clienterror"} THEN "retry"
    ELSE "raise"

\* mutant of AfterAttempt: the clause "except asyncio.TimeoutError" is missing
AfterAttempt_TimeoutUncaught(o) ==
    IF o \in {"ok", "empty"} THEN "return"
    ELSE IF o \in {"created", "status", "clienterror"} THEN "retry"
    ELSE "raise"

\* mutant of AfterAttempt: the test is "status == 200 and body", an empty body
\* is retried
AfterAttempt_EmptyRetried(o) ==
    IF o = "ok" THEN "return"
    ELSE IF o \in {"empty", "created", "status", "timeout", "clienterror"} THEN "retry"
    ELSE "raise"

\* fetch_url, lines 108-117: what one attempt's outcome makes the loop do.
\* "return": status == 200, return await response.text()
\* "retry":  the else branch (any other status) or one of the two except clauses
\* "raise":  an exception neither except clause names leaves fetch_url
AfterAttempt(o) ==
    IF o \in {"ok", "empty"} THEN "return"
    ELSE IF o \in {"created", "status"} THEN "retry"
    ELSE IF o \in {"timeout", "clienterror"} THEN "retry"
    ELSE "raise"

\* mutant of ShouldBackoff: the test is "attempt < max_retries", so a sleep
\* follows the last attempt too
ShouldBackoff_AfterLast(a) == a < max_retries

\* fetch_url, line 119: a backoff sleep follows every attempt but the last
ShouldBackoff(a) == a < max_retries - 1

\* fetch_url, line 120: asyncio.sleep(2 ** attempt), in seconds
Backoff(a) == Pow2(a)

\* mutant of ScrapeResult: the test is "if html is None", so an empty body
\* goes on to the extraction
ScrapeResult_IsNone(f, e) ==
    IF f = "raised" THEN "None"
    ELSE IF f = "None" THEN "None"
    ELSE IF e = "exc" THEN "None"
    ELSE "Article"

\* _scrape_single_url, lines 157-192: f is what fetch_url did ("html", "empty",
\* "None" or "raised"), e how the extraction ended ("ok", "exc", "none" when
\* it did not run)
ScrapeResult(f, e) ==
    IF f = "raised" THEN "None"                \* except Exception: return None
    ELSE IF f \in {"None", "empty"} THEN "None" \* if not html: return None
    ELSE IF e = "exc" THEN "None"              \* except Exception: return None
    ELSE "Article"

\* mutant of Classify: the final else branch is missing, a None result is
\* counted nowhere
Classify_NoElse(r) ==
    IF r = "Article" THEN "successful"
    ELSE IF r = "Exception" THEN "failed"
    ELSE "ignored"

\* scrape_articles, lines 138-145: the branch of the aggregation loop a result takes
Classify(r) ==
    IF r = "Article" THEN "successful"       \* isinstance(result, Article)
    ELSE IF r = "Exception" THEN "failed"    \* isinstance(result, Exception)
    ELSE "failed"                            \* else (None)

\* mutant of Aggregate: a record is put at the front of the list
\* (articles.insert(0, result))
RECURSIVE Aggregate_Prepend(_, _, _)
Aggregate_Prepend(i, n, acc) ==
    IF i > n THEN acc
    ELSE Aggregate_Prepend(i + 1, n,
            IF Classify(result[i]) = "successful"
            THEN [acc EXCEPT !.articles = <<i>> \o @, !.successful = @ + 1]
            ELSE IF Classify(result[i]) = "failed"
            THEN [acc EXCEPT !.failed = @ + 1]
            ELSE acc)

\* scrape_articles, lines 137-145: the loop over the gathered results, in order
RECURSIVE Aggregate(_, _, _)
Aggregate(i, n, acc) ==
    IF i > n THEN acc
    ELSE Aggregate(i + 1, n,
            IF Classify(result[i]) = "successful"
            THEN [acc EXCEPT !.articles = Append(@, i), !.successful = @ + 1]
            ELSE IF Classify(result[i]) = "failed"
            THEN [acc EXCEPT !.failed = @ + 1]
            ELSE acc)

\* float division: a / b, or ZeroDivisionError
Divide(a, b) ==
    IF b = 0 THEN [ok |-> FALSE, num |-> 0, den |-> 1]
    ELSE [ok |-> TRUE, num |-> a, den |-> b]

\* scrape_articles, line 150
ItemsPerSecond(successful, elapsed) ==
    IF elapsed > 0 THEN Divide(successful, elapsed)
    ELSE [ok |-> TRUE, num |-> 0, den |-> 1]

(* ------------------------------- Init ---------------------------------- *)

\* RateLimiter.__init__ and WebScraper.__init__, called with a rate of the set
\* rates and a timeout of the set timeouts
Construction(rates, timeouts) ==
    /\ now = StartTime
    /\ requests_per_second \in rates
    /\ constructed = Construct(requests_per_second)
    /\ min_interval = (IF constructed = "ok" THEN MinInterval(requests_per_second) ELSE 0)
    /\ last_request_time = 0
    /\ timeout \in timeouts
    /\ max_retries \in 1..MaxRetries
    /\ stats = NewStats
    /\ phase = "idle"
    /\ urls = 0
    /\ start_time = 0
    /\ articles = <<>>
    /\ raised = "none"
    /\ calls = 0
    /\ submitted = 0
    /\ pc = [i \in Urls |-> "none"]
    /\ attempt = [i \in Urls |-> 0]
    /\ wake = [i \in Urls |-> 0]
    /\ result = [i \in Urls |-> "pending"]
    /\ outcome = [i \in Urls |-> "none"]
    /\ fetched = [i \in Urls |-> "pending"]
    /\ extract = [i \in Urls |-> "none"]
    /\ nreq = [i \in Urls |-> 0]
    /\ nfail = [i \in Urls |-> 0]
    /\ ngrant = [i \in Urls |-> 0]
    /\ slept = [i \in Urls |-> 0]
    /\ overtaken = FALSE
    /\ gap = min_interval
    /\ base = <<0, 0>>

\* a WebScraper constructed with a positive rate and a positive timeout
Init == Construction(Rates, Timeouts)

\* a WebScraper constructed with any rate and any timeout
InitAnyConfig == Construction(Rates \cup BadRates, Timeouts \cup BadTimeouts)

(* ------------------------------ actions -------------------------------- *)

\* the pipelines of the current call
Tasks == 1..urls

\* RateLimiter.wait line 72 and fetch_url lines 102-107: wait() returns (the
\* grant) and, with no suspension in between, the attempt's request is issued
Grant(i) ==
    /\ last_request_time' = now
    /\ gap' = IF now - last_request_time < min_interval
              THEN now - last_request_time ELSE min_interval
    /\ ngrant' = [ngrant EXCEPT ![i] = @ + 1]
    /\ nreq' = [nreq EXCEPT ![i] = @ + 1]
    /\ pc' = [pc EXCEPT ![i] = "request"]
    /\ wake' = [wake EXCEPT ![i] = now + timeout]

\* mutant of SleepTime: the elapsed time is added, not subtracted
SleepTime_Plus(elapsed) == min_interval + elapsed

\* RateLimiter.wait, line 71: asyncio.sleep(self.min_interval - elapsed)
SleepTime(elapsed) == min_interval - elapsed

\* mutant of Wait: rate_limiter.wait() is awaited once, before the loop, so a
\* retry issues its request on the grant of the first attempt
Wait_BeforeLoop(i, a) ==
    /\ attempt' = [attempt EXCEPT ![i] = a]
    /\ IF a > 0
       THEN /\ nreq' = [nreq EXCEPT ![i] = @ + 1]
            /\ pc' = [pc EXCEPT ![i] = "request"]
            /\ wake' = [wake EXCEPT ![i] = now + timeout]
            /\ UNCHANGED <<limiter, ngrant>>
       ELSE IF MustSleep(now - last_request_time)
       THEN /\ pc' = [pc EXCEPT ![i] = "lim_sleep"]
            /\ wake' = [wake EXCEPT ![i] = now + SleepTime(now - last_request_time)]
            /\ UNCHANGED <<limiter, ngrant, nreq>>
       ELSE Grant(i)

\* RateLimiter.wait lines 69-71, called at the top of iteration a of the loop
\* of fetch_url: either the caller is suspended in asyncio.sleep, or it goes
\* on to line 72 at once
Wait(i, a) ==
    /\ attempt' = [attempt EXCEPT ![i] = a]
    /\ IF MustSleep(now - last_request_time)
       THEN /\ pc' = [pc EXCEPT ![i] = "lim_sleep"]
            /\ wake' = [wake EXCEPT ![i] = now + SleepTime(now - last_request_time)]
            /\ UNCHANGED <<limiter, ngrant, nreq>>
       ELSE Grant(i)

\* mutant of TaskStats: _scrape_single_url counts its own outcome in self.stats
\* before it returns
TaskStats_Counted(r) ==
    IF r = "Article" THEN [stats EXCEPT !.successful_items = @ + 1]
    ELSE [stats EXCEPT !.failed_items = @ + 1]

\* self.stats after a pipeline has returned r: fetch_url (lines 94-123) and
\* _scrape_single_url (lines 155-192) have no statement that writes self.stats
TaskStats(r) == stats

\* fetch_url returns f (or raises) and _scrape_single_url runs to its end with
\* no suspension: the extraction e, then the value gather collects
Return(i, f, e) ==
    /\ fetched' = [fetched EXCEPT ![i] = f]
    /\ extract' = [extract EXCEPT ![i] = e]
    /\ result' = [result EXCEPT ![i] = ScrapeResult(f, e)]
    /\ pc' = [pc EXCEPT ![i] = "done"]
    /\ wake' = [wake EXCEPT ![i] = 0]
    /\ stats' = TaskStats(ScrapeResult(f, e))
    /\ overtaken' = (\/ overtaken
                     \/ /\ ScrapeResult(f, e) = "Article"
                        /\ \E j \in 1..(i - 1) : pc[j] # "done")

\* fetch_url lines 98-100 and 122-123: the loop's test before iteration a;
\* the loop body begins with RateLimiter.wait, and after the last iteration
\* fetch_url returns None
NextIteration(i, a) ==
    IF a < max_retries
    THEN /\ Wait(i, a)
         /\ UNCHANGED <<result, fetched, extract, stats, overtaken>>
    ELSE /\ Return(i, "None", "none")
         /\ UNCHANGED <<attempt, limiter, ngrant, nreq>>

\* scrape_articles lines 127-135: the call up to its suspension in gather, on
\* a WebScraper that exists
Call(n) ==
    /\ constructed = "ok"
    /\ phase = "idle"
    /\ calls + submitted + n <= MaxUrls
    /\ (submitted + n) * max_retries <= MaxAttempts
    /\ submitted' = submitted + n
    /\ phase' = "running"
    /\ calls' = calls + 1
    /\ urls' = n
    /\ stats' = [stats EXCEPT !.status = "running", !.total_items = n]
    /\ start_time' = now
    /\ articles' = <<>>
    /\ raised' = "none"
    /\ base' = <<stats.successful_items, stats.failed_items>>
    /\ pc' = [i \in Urls |-> IF i <= n THEN "start" ELSE "none"]
    /\ attempt' = [i \in Urls |-> 0]
    /\ wake' = [i \in Urls |-> 0]
    /\ result' = [i \in Urls |-> "pending"]
    /\ outcome' = [i \in Urls |-> "none"]
    /\ fetched' = [i \in Urls |-> "pending"]
    /\ extract' = [i \in Urls |-> "none"]
    /\ nreq' = [i \in Urls |-> 0]
    /\ nfail' = [i \in Urls |-> 0]
    /\ ngrant' = [i \in Urls |-> 0]
    /\ slept' = [i \in Urls |-> 0]
    /\ overtaken' = FALSE
    /\ UNCHANGED <<now, cfg, limiter>>

\* the first step of pipeline i: _scrape_single_url line 158 and fetch_url
\* lines 96-100.  The event loop starts the tasks of gather in their order.
TaskStart(i) ==
    /\ phase = "running"
    /\ i \in Tasks
    /\ pc[i] = "start"
    /\ \A j \in 1..(i - 1) : pc[j] # "start"
    /\ NextIteration(i, 0)
    /\ UNCHANGED <<now, cfg, call, outcome, nfail, slept>>

\* mutant of LimiterWake: wait() sleeps in a loop on the elapsed time it read
\* before the sleep (while elapsed < min_interval: sleep), so the caller never
\* leaves wait()
LimiterWake_Stale(i) ==
    /\ phase = "running"
    /\ i \in Tasks
    /\ pc[i] = "lim_sleep"
    /\ now >= wake[i]
    /\ UNCHANGED vars

\* RateLimiter.wait line 72, after asyncio.sleep of line 71 has ended
LimiterWake(i) ==
    /\ phase = "running"
    /\ i \in Tasks
    /\ pc[i] = "lim_sleep"
    /\ now >= wake[i]
    /\ Grant(i)
    /\ UNCHANGED <<now, cfg, stats, call, attempt, result, outcome, fetched, extract,
                   nfail, slept, overtaken>>

\* fetch_url lines 107-123: the request of pipeline i ends in o.  A timeout is
\* the deadline of aiohttp.ClientTimeout(total=timeout) passing.
Resolve(i, o, e) ==
    /\ phase = "running"
    /\ i \in Tasks
    /\ pc[i] = "request"
    /\ o = "timeout" => now >= wake[i]
    /\ e = "none" <=> o # "ok"
    /\ outcome' = [outcome EXCEPT ![i] = o]
    /\ CASE AfterAttempt(o) = "return" ->
              /\ Return(i, IF o = "ok" THEN "html" ELSE "empty", e)
              /\ UNCHANGED <<attempt, limiter, ngrant, nreq, nfail, slept>>
         [] AfterAttempt(o) = "raise" ->
              /\ Return(i, "raised", e)
              /\ UNCHANGED <<attempt, limiter, ngrant, nreq, nfail, slept>>
         [] OTHER ->
              /\ nfail' = [nfail EXCEPT ![i] = @ + 1]
              /\ IF ShouldBackoff(attempt[i])
                 THEN /\ pc' = [pc EXCEPT ![i] = "backoff"]
                      /\ wake' = [wake EXCEPT ![i] = now + Backoff(attempt[i])]
                      /\ slept' = [slept EXCEPT ![i] = @ + Backoff(attempt[i])]
                      /\ UNCHANGED <<attempt, limiter, ngrant, nreq,
                                     result, fetched, extract, stats, overtaken>>
                 ELSE /\ NextIteration(i, attempt[i] + 1)
                      /\ UNCHANGED slept
    /\ UNCHANGED <<now, cfg, call>>

\* fetch_url line 120 ends: the next iteration of the loop begins (lines 98-100)
BackoffWake(i) ==
    /\ phase = "running"
    /\ i \in Tasks
    /\ pc[i] = "backoff"
    /\ now >= wake[i]
    /\ NextIteration(i, attempt[i] + 1)
    /\ UNCHANGED <<now, cfg, call, outcome, nfail, slept>>

\* scrape_articles lines 135-153: gather has every result, the aggregation
\* loop runs, the statistics are computed and the call returns
Finish ==
    /\ phase = "running"
    /\ \A i \in Tasks : pc[i] = "done"
    /\ LET acc == Aggregate(1, urls, [articles |-> <<>>,
                                      successful |-> stats.successful_items,
                                      failed |-> stats.failed_items])
           elapsed_time == now - start_time
           ips == ItemsPerSecond(acc.successful, elapsed_time)
           counted == [stats EXCEPT !.successful_items = acc.successful,
                                    !.failed_items = acc.failed,
                                    !.total_time = elapsed_time]
       IN  IF ips.ok
           THEN /\ stats' = [counted EXCEPT !.items_per_second = <<ips.num, ips.den>>,
                                            !.status = "completed"]
                /\ articles' = acc.articles
                /\ raised' = "none"
           ELSE /\ stats' = counted
                /\ articles' = <<>>
                /\ raised' = "ZeroDivisionError"
    /\ phase' = "idle"
    /\ UNCHANGED <<now, cfg, urls, start_time, calls, submitted, base, task, limiter>>

\* time.time() advances.  Time passes while a call runs and something waits
\* for it (a sleep, a request in flight) or the call has taken no time yet,
\* and between two calls until the limiter's interval has passed; a request
\* in flight ends no later than its deadline.  The tasks gather creates are
\* ready at once and the loop starts them one after the other: no second
\* passes before the last of them has started.
Tick ==
    /\ \A i \in Tasks : pc[i] = "request" => now < wake[i]
    /\ \A i \in Tasks : pc[i] # "start"
    /\ \/ /\ phase = "running"
          /\ \/ now = start_time
             \/ \E i \in Tasks : pc[i] \in {"lim_sleep", "backoff", "request"} /\ now < wake[i]
       \/ /\ phase = "idle"
          /\ 0 < calls /\ calls + submitted <= MaxUrls
          /\ now < last_request_time + min_interval
    /\ now' = now + 1
    /\ UNCHANGED <<cfg, stats, call, task, limiter>>

Next ==
    \/ \E n \in 0..MaxUrls : Call(n)
    \/ \E i \in Urls : TaskStart(i)
    \/ \E i \in Urls : LimiterWake(i)
    \/ \E i \in Urls, o \in Outcomes, e \in Extractions \cup {"none"} : Resolve(i, o, e)
    \/ \E i \in Urls : BackoffWake(i)
    \/ Finish
    \/ Tick

Spec == Init /\ [][Next]_vars

\* mutant of CancelTask: the pipelines are shielded from the cancellation of
\* gather (asyncio.shield around each), so they stay where they are
CancelTask_Shielded(p) == p

\* what the cancellation of gather does to a pipeline suspended at p: a
\* pipeline that has returned keeps its result; any other gets CancelledError
\* at its await (or before its first step).  In fetch_url neither except clause
\* names it (lines 112-117) and the backoff sleep is outside the try (line
\* 120), so it leaves fetch_url, and _scrape_single_url ends with it (or, where
\* CancelledError is an Exception, in "except Exception", lines 190-192)
\* without another await.
CancelTask(p) == IF p = "done" THEN "done" ELSE "cancelled"

\* the caller cancels scrape_articles while it is suspended in gather (line
\* 135): gather cancels its pipelines, CancelledError leaves scrape_articles
\* from line 135, and lines 137-151 do not run
Cancel ==
    /\ phase = "running"
    /\ pc' = [i \in Urls |-> IF i \in Tasks THEN CancelTask(pc[i]) ELSE pc[i]]
    /\ wake' = [i \in Urls |-> IF pc'[i] = "cancelled" THEN 0 ELSE wake[i]]
    /\ phase' = "idle"
    /\ raised' = "CancelledError"
    /\ UNCHANGED <<now, cfg, stats, urls, start_time, articles, calls, submitted, base,
                   attempt, result, outcome, fetched, extract, nreq, nfail, ngrant, slept,
                   overtaken, limiter>>

\* the program with a caller that may cancel a running scrape_articles
SpecCancel == Init /\ [][Next \/ Cancel]_vars

\* the same program, the constructor's arguments not restricted to positive ones
SpecAnyConfig == InitAnyConfig /\ [][Next]_vars

\* what the event loop and the clock do on their own once scrape_articles has
\* been called: every step but the caller's decision to call
Progress ==
    \/ \E i \in Urls : TaskStart(i)
    \/ \E i \in Urls : LimiterWake(i)
    \/ \E i \in Urls, o \in Outcomes, e \in Extractions \cup {"none"} : Resolve(i, o, e)
    \/ \E i \in Urls : BackoffWake(i)
    \/ Finish
    \/ Tick

\* the asyncio event loop runs every ready task and ends every sleep whose
\* time has come, the clock advances, and every request in flight resolves
\* (by its ClientTimeout deadline at the latest)
FairSpec == Spec /\ WF_vars(Progress)

(* ------------------------------- claims -------------------------------- *)

\* a scrape_articles call has returned (or raised) and none is running
Completed == phase = "idle" /\ calls >= 1

\* pipeline i produced a record: fetch_url returned a body and the extraction
\* ended without an exception
Succeeded(i) == fetched[i] = "html" /\ extract[i] = "ok"

\* how often URL i has a record in the list seq
Occurrences(i, seq) == Cardinality({k \in 1..Len(seq) : seq[k] = i})

\* sum(2^k for k in 0..n-2)
RECURSIVE BackoffSum(_)
BackoffSum(n) == IF n <= 1 THEN 0 ELSE Pow2(n - 2) + BackoffSum(n - 1)

\* C1: any two consecutive grants of the shared limiter (returns of
\* RateLimiter.wait) are at least min_interval apart, in every interleaving of
\* the pipelines.
C1_GrantsSpaced ==
    gap >= min_interval

\* C2: a batch of N URLs that all succeed on their first attempt completes no
\* earlier than (N-1)/r after it starts: total_time * r >= N - 1.
C2_BatchPaced ==
    (/\ Completed
     /\ raised = "none"
     /\ \A i \in Tasks : nreq[i] = 1 /\ fetched[i] \in {"html", "empty"})
    => stats.total_time * requests_per_second[1] >= (urls - 1) * requests_per_second[2]

\* C3: a URL whose every attempt fails makes fetch_url perform exactly
\* max_retries request attempts, with a total backoff of
\* sum(2^i for i in 0..max_retries-2) seconds, and return the failure value
\* None; with max_retries = 1 that is one attempt and no backoff sleep.
C3_ExhaustedRetries ==
    \A i \in Tasks :
        (pc[i] = "done" /\ nfail[i] = nreq[i]) =>
            /\ nreq[i] = max_retries
            /\ ngrant[i] = max_retries
            /\ slept[i] = BackoffSum(max_retries)
            /\ fetched[i] = "None"
            /\ max_retries = 1 => (nreq[i] = 1 /\ slept[i] = 0)

\* C3 witness: three attempts that all failed, the last by a timeout, and a
\* total backoff of 1 + 2 seconds
C3_Witness ==
    \E i \in Tasks :
        /\ pc[i] = "done" /\ max_retries = 3
        /\ nfail[i] = 3 /\ nreq[i] = 3 /\ slept[i] = 3
        /\ outcome[i] = "timeout" /\ fetched[i] = "None"

\* C4 as stated: an attempt that receives any 2xx response returns the body
\* at once as success, and the loop exits.
C4_Any2xxReturns ==
    \A i \in Tasks :
        outcome[i] \in {"ok", "empty", "created"} =>
            pc[i] = "done" /\ fetched[i] \in {"html", "empty"}

\* C4 amended: an attempt that receives a 200 response and reads its body
\* returns that body at once (the pipeline is done, with one request more than
\* failed attempts, and nothing further happens for it); every other status,
\* 2xx ones other than 200 included, a timeout and a transport error are a
\* retryable failure of the attempt and never a success.
C4_Status200Returns ==
    \A i \in Tasks :
        /\ outcome[i] \in {"ok", "empty"} =>
              /\ pc[i] = "done"
              /\ fetched[i] = (IF outcome[i] = "ok" THEN "html" ELSE "empty")
              /\ nreq[i] = nfail[i] + 1 /\ ngrant[i] = nreq[i]
        /\ outcome[i] \in {"created", "status", "timeout", "clienterror"} =>
              /\ fetched[i] \in {"pending", "None"}
              /\ nfail[i] >= 1
        /\ pc[i] = "backoff" =>
              outcome[i] \in {"created", "status", "timeout", "clienterror"}

\* C4 witness: one pipeline returned on a 200 response after a failed attempt
\* while another, answered with a 2xx other than 200, is in its backoff sleep
C4_Witness ==
    \E i, j \in Tasks :
        /\ outcome[i] = "ok" /\ pc[i] = "done" /\ nfail[i] = 1
        /\ outcome[j] = "created" /\ pc[j] = "backoff"

\* C5: a failed attempt (timeout, transport error, non-success status) never
\* makes fetch_url raise: the failure is handled in the loop, and when all
\* max_retries attempts have failed the caller gets None.
C5_FailuresHandled ==
    \A i \in Tasks :
        outcome[i] \in {"timeout", "clienterror", "status"} =>
            /\ fetched[i] \in {"pending", "None"}
            /\ pc[i] \in {"backoff", "lim_sleep", "request", "done"}
            /\ pc[i] = "done" =>
                  /\ fetched[i] = "None" /\ result[i] = "None"
                  /\ nfail[i] = max_retries

\* C5 witness: both attempts failed, the last by a transport error, and
\* fetch_url returned None
C5_Witness ==
    \E i \in Tasks :
        /\ max_retries = 2 /\ pc[i] = "done" /\ nfail[i] = 2
        /\ outcome[i] = "clienterror" /\ fetched[i] = "None"

\* C6: scrape_articles never raises; when it has returned, every pipeline has
\* reached its own outcome (a URL that fetched and extracted has its record,
\* whatever its siblings did), and every URL without a record, those with a
\* terminal fetch failure or an extraction exception among them, was counted
\* as exactly one failed item.
C6_FailureIsolated ==
    /\ raised = "none"
    /\ Completed =>
          /\ \A i \in Tasks : pc[i] = "done"
          /\ \A i \in Tasks : Succeeded(i) => Occurrences(i, articles) = 1
          /\ \A i \in Tasks : (fetched[i] = "None" \/ extract[i] = "exc")
                                 => Occurrences(i, articles) = 0
          /\ stats.failed_items - base[2] =
                 Cardinality({i \in Tasks : ~Succeeded(i)})

\* C6 witness: a batch of three returned, one URL failed in the fetch, one in
\* the extraction, and the third has its record
C6_Witness ==
    /\ Completed /\ urls = 3
    /\ \E i, j, k \in Tasks :
          /\ fetched[i] = "None"
          /\ extract[j] = "exc"
          /\ Succeeded(k) /\ Occurrences(k, articles) = 1
    /\ stats.failed_items = 2

\* C7: whenever a scrape_articles call has completed,
\* successful_items + failed_items = total_items, for every call on a WebScraper.
C7_StatsAddUp ==
    (Completed /\ raised = "none") =>
        stats.successful_items + stats.failed_items = stats.total_items

\* C8: the first batch on a new WebScraper returns exactly one record for each
\* URL whose fetch and extraction succeeded and none for any other URL;
\* successful_items is the number of records and failed_items is
\* total_items - successful_items.
C8_FirstBatchRecords ==
    (Completed /\ calls = 1) =>
        /\ \A i \in Urls :
              Occurrences(i, articles) = (IF i \in Tasks /\ Succeeded(i) THEN 1 ELSE 0)
        /\ \A i \in Tasks : Succeeded(i) => nreq[i] <= max_retries
        /\ stats.successful_items = Len(articles)
        /\ stats.failed_items = stats.total_items - stats.successful_items
        /\ stats.total_items = urls

\* C8 witness: A fails, B and C succeed on their first attempt: 2 records,
\* successful_items = 2, failed_items = 1
C8_Witness ==
    /\ Completed /\ calls = 1 /\ urls = 3
    /\ fetched[1] = "None"
    /\ Succeeded(2) /\ nreq[2] = 1
    /\ Succeeded(3) /\ nreq[3] = 1
    /\ Len(articles) = 2
    /\ stats.successful_items = 2 /\ stats.failed_items = 1

\* C9: after any sequence of calls on one WebScraper the statistics count only
\* the latest call's URLs: successful_items is the number of records that call
\* returned and failed_items the number of its URLs that failed.
C9_StatsPerCall ==
    (Completed /\ raised = "none") =>
        /\ stats.successful_items = Len(articles)
        /\ stats.failed_items = Cardinality({i \in Tasks : ~Succeeded(i)})

\* C10: scrape_articles([]) returns an empty list with total_items = 0,
\* successful_items = 0, failed_items = 0 and items_per_second = 0, raises no
\* division error, acquires the limiter not once and issues no request.
C10_EmptyBatch ==
    (Completed /\ urls = 0) =>
        /\ articles = <<>>
        /\ raised = "none"
        /\ stats.total_items = 0
        /\ stats.successful_items = 0
        /\ stats.failed_items = 0
        /\ stats.items_per_second[1] = 0
        /\ \A i \in Urls : ngrant[i] = 0 /\ nreq[i] = 0

\* C11: under fair scheduling, with every network attempt resolving, every
\* scrape_articles call eventually returns with status completed and every one
\* of its pipelines resolved: no pipeline stays suspended forever in the
\* limiter's sleep or in a backoff sleep.
C11_CallsComplete ==
    (phase = "running") ~>
        (/\ phase = "idle"
         /\ stats.status = "completed"
         /\ \A i \in Tasks : pc[i] = "done")

\* C11 witness: a call of two URLs returned completed although every URL
\* failed, after backoff sleeps: successful_items = 0, failed_items = total_items
C11_Witness ==
    /\ Completed /\ calls = 1 /\ urls = 2
    /\ stats.status = "completed"
    /\ stats.successful_items = 0
    /\ stats.failed_items = stats.total_items
    /\ \A i \in Tasks : fetched[i] = "None" /\ slept[i] > 0

\* the constructor was given a non-positive rate or a non-positive timeout
InvalidConfig == requests_per_second[1] <= 0 \/ timeout <= 0

\* C12: constructing a RateLimiter or WebScraper with requests_per_second <= 0,
\* or a WebScraper with a non-positive timeout, is reported as an error by the
\* constructor, so no limiter wait and no request ever happens with such a
\* configuration.
C12_InvalidConfigRejected ==
    InvalidConfig =>
        /\ constructed # "ok"
        /\ \A i \in Urls : ngrant[i] = 0 /\ nreq[i] = 0

\* C13: when scrape_articles is cancelled by its caller while pipelines are in
\* flight, the cancellation reaches every pipeline that has not returned (none
\* is left in the limiter's sleep, in a request or in a backoff sleep), and the
\* counters successful_items and failed_items are those from before the call:
\* nothing is counted for a pipeline that did not resolve, nor for one that did.
C13_CancelReachesAll ==
    raised = "CancelledError" =>
        /\ phase = "idle"
        /\ \A i \in Tasks : pc[i] \in {"done", "cancelled"}
        /\ \A i \in Tasks : pc[i] = "cancelled" => result[i] = "pending"
        /\ stats.successful_items = base[1]
        /\ stats.failed_items = base[2]

\* C13 witness: a call of two URLs was cancelled after the first URL had its
\* record and while the second, one attempt failed, was still in flight
C13_Witness ==
    /\ raised = "CancelledError" /\ urls = 2
    /\ pc[1] = "done" /\ result[1] = "Article"
    /\ pc[2] = "cancelled" /\ nfail[2] = 1 /\ result[2] = "pending"
    /\ stats.successful_items = 0 /\ stats.failed_items = 0

C15_AttemptsGated ==
    \A i \in Tasks :
        /\ nreq[i] <= ngrant[i]
        /\ pc[i] = "request" => (nreq[i] = attempt[i] + 1 /\ ngrant[i] = attempt[i] + 1)
        /\ pc[i] = "lim_sleep" => (nreq[i] = attempt[i] /\ ngrant[i] = attempt[i])
        /\ pc[i] = "backoff" => (nreq[i] = attempt[i] + 1 /\ ngrant[i] = attempt[i] + 1)

\* C15 witness: a pipeline is in the request of its second attempt (a retry),
\* with two grants and two requests
C15_Witness ==
    \E i \in Tasks :
        /\ pc[i] = "request" /\ attempt[i] = 1
        /\ ngrant[i] = 2 /\ nreq[i] = 2 /\ nfail[i] = 1

\* C16: the statistics are written only where scrape_articles aggregates:
\* while a call runs (some pipeline may be unresolved) no step of fetch_url or
\* _scrape_single_url changes any field of stats, and successful_items and
\* failed_items keep the values they had when the pipelines were launched.
C16_StatsOnlyAtAggregation ==
    /\ [](phase = "running" =>
            /\ stats.successful_items = base[1]
            /\ stats.failed_items = base[2])
    /\ [][(phase = "running" /\ phase' = "running") => stats' = stats]_vars

\* C16 witness: of three pipelines one has returned its record, one has
\* returned None and one is still in its request; the counters are still 0
C16_Witness ==
    /\ phase = "running" /\ urls = 3
    /\ pc[1] = "done" /\ result[1] = "Article"
    /\ pc[2] = "done" /\ result[2] = "None"
    /\ pc[3] = "request"
    /\ stats.successful_items = 0 /\ stats.failed_items = 0

\* the place of a status in the order pending -> running -> completed
StatusRank(st) ==
    IF st = "pending" THEN 0 ELSE IF st = "running" THEN 1 ELSE 2

\* C17: the status follows pending -> running -> completed: a new WebScraper
\* is pending, a running call has status running from before its first
\* pipeline starts, the status is completed only when no call runs (every
\* pipeline resolved, the counters final), no per-URL failure sets it to
\* failed, and the status never moves backwards along the order.
C17_StatusLifecycle ==
    /\ [](calls = 0 => stats.status = "pending")
    /\ [](phase = "running" => stats.status = "running")
    /\ [](stats.status = "completed" => (phase = "idle" /\ \A i \in Tasks : pc[i] = "done"))
    /\ [](stats.status # "failed")
    /\ [][StatusRank(stats.status') >= StatusRank(stats.status)]_vars

\* C18: a call of RateLimiter.wait() sleeps at most min_interval, whatever the
\* other callers do, and it does not sleep at all when at least min_interval
\* has passed since last_request_time: a caller that enters the sleep of wait()
\* read an elapsed time below min_interval and asked for a sleep of more than 0
\* and at most min_interval seconds, and at any time what is left of a caller's
\* sleep is at most min_interval.
C18_WaitBounded ==
    /\ [][\A i \in Urls :
            (pc[i] # "lim_sleep" /\ pc'[i] = "lim_sleep") =>
                /\ now - last_request_time < min_interval
                /\ wake'[i] - now > 0
                /\ wake'[i] - now <= min_interval]_vars
    /\ [](\A i \in Tasks : pc[i] = "lim_sleep" => wake[i] - now <= min_interval)

\* C18 witness: at rate 0.5 two callers sleep in wait() at once: one called it
\* after its 1 s backoff and has just begun a sleep of 1 s (elapsed 1 s of a
\* min_interval of 2 s), the other called it right after the first grant and
\* has 1 s left of its sleep of the full min_interval
C18_Witness ==
    \E i, j \in Tasks :
        /\ min_interval = 2 /\ now = last_request_time + 1
        /\ pc[i] = "lim_sleep" /\ nfail[i] = 1 /\ wake[i] - now = 1
        /\ pc[j] = "lim_sleep" /\ nfail[j] = 0 /\ wake[j] - now = 1

\* C19: the list scrape_articles returns is in input order, not completion
\* order: of two URLs that both have a record, the one earlier in the input
\* has its record earlier in the list, whatever order the pipelines finished in.
C19_InputOrder ==
    Completed =>
        \A k, l \in 1..Len(articles) : k < l => articles[k] < articles[l]

\* C19 witness: both URLs of a call have their record, the second URL's
\* pipeline returned its record before the first's had returned, and the list
\* is first, second
C19_Witness ==
    /\ Completed /\ urls = 2
    /\ overtaken
    /\ articles = <<1, 2>>

\* C20: a 200 response with an empty body is a failure without retry: fetch_url
\* returns the empty body after that attempt (no later request, grant or
\* backoff for the URL, even with attempts left), _scrape_single_url yields no
\* record (the extraction does not run), and when the call has returned the
\* URL has no record and is counted in failed_items.
C20_EmptyBodyFails ==
    \A i \in Tasks :
        outcome[i] = "empty" =>
            /\ pc[i] = "done"
            /\ fetched[i] = "empty" /\ extract[i] = "none" /\ result[i] = "None"
            /\ nreq[i] = nfail[i] + 1 /\ ngrant[i] = nreq[i]
            /\ slept[i] = BackoffSum(nreq[i])
            /\ Completed =>
                  /\ Occurrences(i, articles) = 0
                  /\ stats.failed_items - base[2] >= 1
                  /\ stats.failed_items - base[2] = urls - Len(articles)

\* C20 witness: with max_retries = 3 the only URL of a call got an empty 200
\* on its first attempt; the call returned no record and failed_items = 1
\* after that one request
C20_Witness ==
    /\ Completed /\ calls = 1 /\ urls = 1 /\ max_retries = 3
    /\ outcome[1] = "empty" /\ nreq[1] = 1 /\ slept[1] = 0
    /\ articles = <<>>
    /\ stats.failed_items = 1 /\ stats.successful_items = 0

====
